---- MODULE Spec2Model ----
(***************************************************************************)
(* ZunkDB back-end (chunk-db-zdb.c): the request engine send_request and   *)
(* the process-wide node cache / dead list it shares between threads.      *)
(*                                                                         *)
(* Lists are sequences of node ids, head first (list_add inserts at the    *)
(* head, node_cache.prev is the last element).  A critical section of      *)
(* cache_mutex is one atomic step, as is an event callback up to the point *)
(* where it gives a node back to the cache; what readcb does after that is *)
(* a step of its own (DrainRest).  The program's state is gathered in a    *)
(* record s (see St) that the C functions, written as operators, take and  *)
(* return, so that a handler's calls compose as they do in the code.       *)
(*                                                                         *)
(* event_base_loop is taken to succeed: with the deadline timer pending it *)
(* always has an event to wait for, and a failure of the multiplexer       *)
(* itself (the break that follows the call) is not among the inputs.       *)
(***************************************************************************)
EXTENDS Integers, Sequences, FiniteSets, TLC

VARIABLES node_cache,   \* static LIST_HEAD(node_cache): idle nodes
          dead_nodes,   \* static LIST_HEAD(dead_nodes)
          cache_count,  \* static unsigned cache_count
          nodes,        \* the allocated struct node objects, by id
          req,          \* the struct request of each send_request call
          now,          \* gettimeofday(), in seconds
          cfg,          \* struct zdb_info (max_concurrency, start_node)
          script,       \* what the peer at each address answers to a payload
          threads,      \* how many threads of the process call the back-end
          history,      \* what earlier requests left in the cache and dead list
          fds,          \* the process's open socket descriptors
          cache_mutex,  \* static DECLARE_MUTEX(cache_mutex): TRUE while held
          unguarded     \* node_cache, dead_nodes or cache_count was changed
                        \* by a thread that did not hold cache_mutex

vars == <<node_cache, dead_nodes, cache_count, nodes, req, now, cfg, script,
          threads, history, fds, cache_mutex, unguarded>>

-----------------------------------------------------------------------------
(* Program constants *)

CACHE_MAX == 100
DEAD_SECS == 60
\* (unsigned)-1, the largest unsigned value: 2^32 - 1 in the build, here the
\* largest integer TLC represents; only wrap-around at 0 and at this value
\* is ever observed
UINT_MAX == 2147483647

\* what send_request returns
CHUNK_SIZE == "CHUNK_SIZE"
EIO == "-EIO"
ETIMEDOUT == "-ETIMEDOUT"

-----------------------------------------------------------------------------
(* Bounds of the model *)

MaxBatch == 2      \* frames one readcb call finds complete in its input
MaxNow == 121      \* the clock stops advancing here

Requests == {1, 2}            \* concurrent send_request calls (threads)
NULL == 0                     \* NULL pointer / no request
DEAD == -1                    \* &dead_node, the sentinel find_node returns

-----------------------------------------------------------------------------
(* Addresses, chunks, digests and the wire forms *)

Addr(ip, port) == [ip |-> ip, port |-> port]
AddrA == Addr(1, 7000)        \* the configured start node
AddrB == Addr(1, 7001)
AddrC == Addr(2, 7000)
Addrs == {AddrA, AddrB, AddrC}
BgAddr(i) == Addr(9, i)       \* peers of earlier requests, never referred to

GoodChunk == "C"               \* the chunk the digest names
BadChunk == "C'"               \* another chunk
JunkChunk == "junk"            \* bytes that are no chunk any peer stores
Chunks == {JunkChunk, GoodChunk, BadChunk}

\* the digest of a chunk (zunkfs.h, not in this file): injective
Digest(c) == <<"sha256", c>>
TheDigest == Digest(GoodChunk)

verify_chunk(chunk, digest) == Digest(chunk) = digest

\* digest_string: lowercase hex of the digest
digest_string(d) == <<"hex", d>>

\* Base64 text of a chunk, and its decoding into the caller's buffer: text
\* that is not Base64 leaves the buffer with bytes that match no digest
base64_encode(c) == <<"b64", c>>
base64_decode(msg) ==
    IF Len(msg) = 2 /\ msg[1] = "b64" /\ msg[2] \in Chunks
    THEN msg[2] ELSE JunkChunk

same_addr(a, b) == a.ip = b.ip /\ a.port = b.port

\* frames a peer sends
StoreChunk(c) == [verb |-> "store_chunk", arg |-> base64_encode(c)]
RequestDone(d) == [verb |-> "request_done", arg |-> digest_string(d)]
StoreNode(a) == [verb |-> "store_node", arg |-> <<a.ip, ":", a.port>>]
Scripts(a, b, c) == (AddrA :> a) @@ (AddrB :> b) @@ (AddrC :> c)

-----------------------------------------------------------------------------
(* The state as a record *)

St == [node_cache |-> node_cache, dead_nodes |-> dead_nodes,
       cache_count |-> cache_count, nodes |-> nodes, req |-> req, now |-> now,
       fds |-> fds, cache_mutex |-> cache_mutex, unguarded |-> unguarded]

Apply(st) ==
    \E s \in {st} :
        /\ node_cache' = s.node_cache
        /\ dead_nodes' = s.dead_nodes
        /\ cache_count' = s.cache_count
        /\ nodes' = s.nodes
        /\ req' = s.req
        /\ now' = s.now
        /\ fds' = s.fds
        /\ cache_mutex' = s.cache_mutex
        /\ unguarded' = s.unguarded

\* F applied to the value of e.  (A state that a function takes is read at
\* many places of its body: with With the argument is worked out once, not
\* once for each place.)
With(e, F(_)) == CHOOSE x \in {F(v) : v \in {e}} : TRUE

\* unsigned -- and ++
Dec(x) == IF x = 0 THEN UINT_MAX ELSE x - 1
Inc(x) == IF x = UINT_MAX THEN 0 ELSE x + 1

Remove(list, n) == SelectSeq(list, LAMBDA x : x # n)
Has(list, n) == \E i \in 1..Len(list) : list[i] = n

\* lock(&cache_mutex) and unlock(&cache_mutex), by the acting thread (a
\* critical section is one step, so no thread ever waits)
lock(s) == [s EXCEPT !.cache_mutex = TRUE]
unlock(s) == [s EXCEPT !.cache_mutex = FALSE]

\* a write to node_cache, dead_nodes or cache_count: noted when the writer
\* does not hold cache_mutex
shared_write(s) ==
    IF s.cache_mutex THEN s ELSE [s EXCEPT !.unguarded = TRUE]

\* list_del(&node->node_entry): unlink from the list that holds the node
list_del(st, n) ==
    With(st, LAMBDA s :
    LET s1 == IF Has(s.node_cache, n) \/ Has(s.dead_nodes, n)
              THEN shared_write(s) ELSE s
    IN [s1 EXCEPT !.node_cache = Remove(@, n),
                  !.dead_nodes = Remove(@, n),
                  !.req = [r \in Requests |-> [@[r] EXCEPT !.node_list = Remove(@, n)]]])

\* close(fd): the descriptor, if open, is closed, whoever opened it
close(s, fd) == [s EXCEPT !.fds = @ \ {fd}]

\* socket(): the lowest descriptor number that is not open
socket(s) ==
    CHOOSE fd \in 1..(Cardinality(s.fds) + 1) :
        /\ fd \notin s.fds
        /\ \A j \in 1..(fd - 1) : j \in s.fds

\* free(node): the object is gone
Free(s, n) ==
    [s EXCEPT !.nodes = [m \in (DOMAIN @) \ {n} |-> @[m]]]

free_node(st, n) ==
    With(st, LAMBDA s :
    LET r == s.nodes[n].request
        s1 == IF r # NULL
              THEN [s EXCEPT !.req[r].addr_concurrency = Dec(@)]
              ELSE s
    IN Free(close(list_del(s1, n), s.nodes[n].sk), n))

find_in_cache(s, sa) ==
    LET hits == {i \in 1..Len(s.node_cache) :
                    same_addr(s.nodes[s.node_cache[i]].addr, sa)}
    IN IF hits = {} THEN NULL
       ELSE s.node_cache[CHOOSE i \in hits : \A j \in hits : i <= j]

\* an entry taken for expired as soon as the clock has reached its stamp
expired_early(s, n) == s.now >= s.nodes[n].stamp

\* timercmp(&now, &node->stamp, >)
expired(s, n) == s.now > s.nodes[n].stamp

\* the list_for_each_entry_safe loop of find_node over dead_nodes, from
\* position i of the list as it was when the loop began
RECURSIVE sweep_dead(_, _, _, _)
sweep_dead(st, list, i, sa) ==
    With(st, LAMBDA s :
    IF i > Len(list) THEN [s |-> s, node |-> NULL]
    ELSE LET n == list[i]
         IN IF expired(s, n)
            THEN sweep_dead(free_node(s, n), list, i + 1, sa)
            ELSE IF same_addr(s.nodes[n].addr, sa)
                 THEN [s |-> s, node |-> DEAD]
                 ELSE sweep_dead(s, list, i + 1, sa))

\* find_node that leaves the node it returns on node_cache
find_node_nounlink(st, sa) ==
    With(st, LAMBDA s :
    LET s0 == lock(s)
        n == find_in_cache(s0, sa)
    IN With(IF n # NULL
            THEN [s |-> [shared_write(s0) EXCEPT !.cache_count = Dec(@)], node |-> n]
            ELSE sweep_dead(s0, s0.dead_nodes, 1, sa),
            LAMBDA f : [s |-> unlock(f.s), node |-> f.node]))

\* find_node: [s |-> the state after, node |-> a node id, DEAD or NULL]
find_node(st, sa) ==
    With(st, LAMBDA s :
    LET s0 == lock(s)
        n == find_in_cache(s0, sa)
    IN With(IF n # NULL
            THEN [s |-> list_del([shared_write(s0) EXCEPT !.cache_count = Dec(@)], n),
                  node |-> n]
            ELSE sweep_dead(s0, s0.dead_nodes, 1, sa),
            LAMBDA f : [s |-> unlock(f.s), node |-> f.node]))

\* cache_insert that forgets cache_count -- after evicting
cache_insert_nodec(st, n) ==
    With(st, LAMBDA s :
    LET s1 == [shared_write(s) EXCEPT !.node_cache = <<n>> \o @,
                                      !.cache_count = Inc(@)]
    IN IF s1.cache_count > CACHE_MAX
       THEN free_node(s1, s1.node_cache[Len(s1.node_cache)])
       ELSE s1)

\* cache_insert that evicts node_cache.next, the node just inserted
cache_insert_evicthead(st, n) ==
    With(st, LAMBDA s :
    LET s1 == [shared_write(s) EXCEPT !.node_cache = <<n>> \o @,
                                      !.cache_count = Inc(@)]
    IN IF s1.cache_count > CACHE_MAX
       THEN LET s2 == free_node(s1, s1.node_cache[1])
            IN [s2 EXCEPT !.cache_count = Dec(@)]
       ELSE s1)

\* the tail of __cache_node: a connected node goes to the head of node_cache
cache_insert(st, n) ==
    With(st, LAMBDA s :
    LET s1 == [shared_write(s) EXCEPT !.node_cache = <<n>> \o @,
                                      !.cache_count = Inc(@)]
    IN IF s1.cache_count > CACHE_MAX
       THEN LET s2 == free_node(s1, s1.node_cache[Len(s1.node_cache)])
            IN [s2 EXCEPT !.cache_count = Dec(@)]
       ELSE s1)

\* (a detached node has no payload to answer: pos is reset)
__cache_node(st, n) ==
    With(st, LAMBDA s :
    LET s1 == list_del([s EXCEPT !.nodes[n].request = NULL,
                                 !.nodes[n].enabled = FALSE,
                                 !.nodes[n].pos = 0], n)
    IN IF s1.nodes[n].connect_pending
       THEN [shared_write(close(s1, s1.nodes[n].sk)) EXCEPT
                       !.nodes[n].connect_pending = FALSE,
                       !.nodes[n].stamp = s1.now + DEAD_SECS,
                       !.dead_nodes = <<n>> \o @]
       ELSE cache_insert(s1, n))

\* cache_node that does not take cache_mutex
cache_node_nolock(s, n) == __cache_node(s, n)

\* cache_node: __cache_node under cache_mutex
cache_node(s, n) == unlock(__cache_node(lock(s), n))

\* __store_node that appends without looking for the address in the list
__store_node_nodedup(s, r, addr) ==
    [s EXCEPT !.req[r].addr_list = Append(@, addr)]

__store_node(s, r, addr) ==
    IF \E i \in 1..Len(s.req[r].addr_list) : same_addr(addr, s.req[r].addr_list[i])
    THEN s
    ELSE [s EXCEPT !.req[r].addr_list = Append(@, addr)]

\* store_node: "<ip>:<port>" parsed by strchr, atoi/htons and inet_aton
store_node(s, r, addr_str) ==
    IF Len(addr_str) # 3 \/ addr_str[2] # ":" THEN s
    ELSE IF addr_str[1] \notin Nat THEN s
    ELSE __store_node(s, r, Addr(addr_str[1], addr_str[3] % 65536))

\* proc_msg that destroys the node on request_done instead of caching it
proc_msg_free(st, msg, n) ==
    With(st, LAMBDA s :
    LET r == s.nodes[n].request
    IN CASE msg.verb = "store_chunk" ->
              [s |-> IF s.req[r].chunk
                     THEN [s EXCEPT !.req[r].buf = base64_decode(msg.arg),
                                    !.req[r].chunk = FALSE]
                     ELSE s,
               ret |-> 0]
         [] msg.verb = "request_done" ->
              IF msg.arg = digest_string(s.req[r].digest)
              THEN [s |-> free_node([s EXCEPT !.req[r].done = Inc(@),
                                              !.req[r].addr_concurrency = Dec(@)], n),
                    ret |-> 1]
              ELSE [s |-> s, ret |-> 0]
         [] msg.verb = "store_node" ->
              [s |-> store_node(s, r, msg.arg), ret |-> 0]
         [] OTHER -> [s |-> s, ret |-> 0])

\* proc_msg that takes every request_done for the request's own
proc_msg_anydone(st, msg, n) ==
    With(st, LAMBDA s :
    LET r == s.nodes[n].request
    IN CASE msg.verb = "store_chunk" ->
              [s |-> IF s.req[r].chunk
                     THEN [s EXCEPT !.req[r].buf = base64_decode(msg.arg),
                                    !.req[r].chunk = FALSE]
                     ELSE s,
               ret |-> 0]
         [] msg.verb = "request_done" ->
              [s |-> cache_node([s EXCEPT !.req[r].done = Inc(@),
                                          !.req[r].addr_concurrency = Dec(@)], n),
               ret |-> 1]
         [] msg.verb = "store_node" ->
              [s |-> store_node(s, r, msg.arg), ret |-> 0]
         [] OTHER -> [s |-> s, ret |-> 0])

\* proc_msg: [s |-> the state after, ret |-> its return value]
proc_msg(st, msg, n) ==
    With(st, LAMBDA s :
    LET r == s.nodes[n].request
    IN CASE msg.verb = "store_chunk" ->
              [s |-> IF s.req[r].chunk
                     THEN [s EXCEPT !.req[r].buf = base64_decode(msg.arg),
                                    !.req[r].chunk = FALSE]
                     ELSE s,
               ret |-> 0]
         [] msg.verb = "request_done" ->
              IF msg.arg = digest_string(s.req[r].digest)
              THEN [s |-> cache_node([s EXCEPT !.req[r].done = Inc(@),
                                               !.req[r].addr_concurrency = Dec(@)], n),
                    ret |-> 1]
              ELSE [s |-> s, ret |-> 0]
         [] msg.verb = "store_node" ->
              [s |-> store_node(s, r, msg.arg), ret |-> 0]
         [] OTHER -> [s |-> s, ret |-> 0])

\* readcb: the frames found complete in the node's input, in order.  Once
\* proc_msg has returned 1 the node is released (cache_mutex given back) and
\* the loop goes on with evbuffer_drain, EVBUFFER_DATA and evbuffer_find on
\* the node's bev->input until no frame is left: request.draining names the
\* node while that part of the callback is still to run (see DrainRest).
RECURSIVE readcb(_, _, _, _)
readcb(st, n, frames, drain_all) ==
    With(st, LAMBDA s :
    IF frames = <<>> THEN s
    ELSE IF drain_all # 0 THEN readcb(s, n, Tail(frames), drain_all)
    ELSE With(proc_msg(s, Head(frames), n), LAMBDA p :
            readcb(IF p.ret = 1
                   THEN [p.s EXCEPT !.req[s.nodes[n].request].draining = n]
                   ELSE p.s,
                   n, Tail(frames), p.ret)))

\* try_connect, by what connect() answers
try_connect(st, n, outcome) ==
    With(st, LAMBDA s :
    CASE outcome = "connected" ->
           [s EXCEPT !.nodes[n].connect_pending = FALSE, !.nodes[n].enabled = TRUE]
      [] outcome = "inprogress" ->
           [s EXCEPT !.nodes[n].connect_pending = TRUE]
      [] OTHER ->
           cache_node([s EXCEPT !.nodes[n].connect_pending = TRUE], n))

\* write_request: the peer will answer the payload from the start of its script
write_request(s, n, r) ==
    [s EXCEPT !.nodes[n].request = r,
              !.nodes[n].pos = 0,
              !.req[r].node_list = <<n>> \o @]

NewNode(addr) ==
    [addr |-> addr, sk |-> 0, request |-> NULL, connect_pending |-> FALSE,
     enabled |-> FALSE, stamp |-> 0, pos |-> 0]

FreshId(s) ==
    CHOOSE i \in 1..(Cardinality(DOMAIN s.nodes) + 1) :
        /\ i \notin DOMAIN s.nodes
        /\ \A j \in 1..(i - 1) : j \in DOMAIN s.nodes

send_request_to(s, r, addr, outcome) ==
    With(find_node(s, addr), LAMBDA f :
    IF f.node = DEAD THEN f.s
    ELSE IF f.node # NULL
    THEN [write_request(f.s, f.node, r) EXCEPT !.nodes[f.node].enabled = TRUE]
    ELSE IF outcome = "nomem" THEN f.s
    ELSE LET n == FreshId(f.s)
             sk == socket(f.s)
             s1 == [f.s EXCEPT !.nodes = (n :> [NewNode(addr) EXCEPT !.sk = sk]) @@ @,
                               !.fds = @ \cup {sk}]
         IN try_connect(write_request(s1, n, r), n, outcome))

-----------------------------------------------------------------------------
(* Inputs: what the peers answer *)

Silent == Scripts(<<>>, <<>>, <<>>)
SingleHop ==
    Scripts(<<StoreChunk(GoodChunk), RequestDone(TheDigest)>>, <<>>, <<>>)
Referral ==
    Scripts(<<StoreNode(AddrB), RequestDone(TheDigest)>>,
            <<StoreChunk(GoodChunk), RequestDone(TheDigest)>>, <<>>)
BadThenGood ==
    Scripts(<<StoreNode(AddrB), StoreChunk(BadChunk), RequestDone(TheDigest)>>,
            <<StoreChunk(GoodChunk), RequestDone(TheDigest)>>, <<>>)
Fanout ==
    Scripts(<<StoreNode(AddrB), StoreNode(AddrC), RequestDone(TheDigest)>>,
            <<>>,
            <<StoreChunk(GoodChunk), RequestDone(TheDigest)>>)
\* A repeats itself (its port written modulo 2^16 higher) and B, and sends a
\* frame after its request_done; B answers for another digest first
Repeats ==
    Scripts(<<StoreNode(Addr(1, 7000 + 65536)), StoreNode(AddrB), StoreNode(AddrB),
              RequestDone(TheDigest), StoreNode(AddrC)>>,
            <<RequestDone(Digest(BadChunk)), StoreChunk(GoodChunk)>>,
            <<>>)
\* a body that is not Base64, then the chunk
Garbled ==
    Scripts(<<[verb |-> "store_chunk", arg |-> <<"!">>], StoreChunk(GoodChunk),
              RequestDone(TheDigest)>>,
            <<>>, <<>>)
Scenarios == {Silent, SingleHop, Referral, BadThenGood, Fanout, Repeats, Garbled}

ConnectOutcomes == {"nomem", "connected", "inprogress", "failed"}

-----------------------------------------------------------------------------
(* send_request *)

IdleRequest ==
    [pc |-> "idle", isread |-> FALSE, chunk |-> FALSE, buf |-> JunkChunk,
     digest |-> TheDigest, node_list |-> <<>>, addr_list |-> <<>>,
     addr_index |-> 0, addr_concurrency |-> 0, done |-> 0, err |-> EIO,
     timeout_pending |-> FALSE, stepped |-> FALSE,
     nframes |-> 0, faults |-> FALSE, draining |-> NULL]

\* Of these fields, stepped (event_base_loop has run a callback in this
\* pass), nframes (frames read so far) and faults (a node, socket or connect
\* failure happened) record the run, and draining is the position of the
\* thread inside readcb; the others are the fields of struct request, the
\* caller's buffer and the locals of send_request.

\* What earlier requests can have left behind: idle (connected) nodes and
\* dead-listed nodes, each list given by its addresses, head first; a dead
\* node was listed at time 0.  Node i holds descriptor i, open while the node
\* is idle, closed when it was dead-listed.
IdleLeft(a) == NewNode(a)
DeadLeft(a) == [NewNode(a) EXCEPT !.stamp = DEAD_SECS]
FullCache == [i \in 1..CACHE_MAX |-> BgAddr(i)]
NoHistory == [idle |-> <<>>, dead |-> <<>>]
Histories ==
    { NoHistory,
      [idle |-> FullCache, dead |-> <<>>],
      [idle |-> <<AddrB, AddrA>>, dead |-> <<>>],
      [idle |-> <<>>, dead |-> <<AddrA>>],
      [idle |-> <<AddrC>>, dead |-> <<AddrB>>] }

InitWith(histories, concurrencies, scenarios, nthreads) ==
    /\ \E h \in histories :
          /\ history = h
          /\ node_cache = [i \in 1..Len(h.idle) |-> i]
          /\ dead_nodes = [i \in 1..Len(h.dead) |-> Len(h.idle) + i]
          /\ nodes = [i \in 1..(Len(h.idle) + Len(h.dead)) |->
                        IF i <= Len(h.idle)
                        THEN [IdleLeft(h.idle[i]) EXCEPT !.sk = i]
                        ELSE [DeadLeft(h.dead[i - Len(h.idle)]) EXCEPT !.sk = i]]
          /\ cache_count = Len(h.idle)
          /\ fds = 1..Len(h.idle)
    /\ cache_mutex = FALSE
    /\ unguarded = FALSE
    /\ req = [r \in Requests |-> IdleRequest]
    /\ now = 0
    /\ cfg \in [max_concurrency : concurrencies, start_node : {AddrA}]
    /\ script \in scenarios
    /\ threads = nthreads

\* one thread calls the back-end
Init == InitWith(Histories, {1, 2, UINT_MAX}, Scenarios, 1)


\* send_request up to its for (;;): the request is set up, the start node
\* stored and the deadline timer armed
Start(r, isread) ==
    /\ req[r].pc = "idle"
    /\ r <= threads
    /\ Apply(__store_node(
          [St EXCEPT !.req[r] = [IdleRequest EXCEPT !.pc = "top",
                                                    !.isread = isread,
                                                    !.chunk = isread,
                                                    !.timeout_pending = TRUE]],
          r, cfg.start_node))
    /\ UNCHANGED <<cfg, script, threads, history>>

\* one pass of the while loop that dispatches to the next candidate address
Dispatch(r, outcome) ==
    /\ req[r].pc = "top"
    /\ req[r].addr_index # Len(req[r].addr_list)
    /\ req[r].addr_concurrency < cfg.max_concurrency
    /\ LET missed == find_node(St, req[r].addr_list[req[r].addr_index + 1]).node = NULL
           s1 == send_request_to(St, r, req[r].addr_list[req[r].addr_index + 1], outcome)
       IN Apply([s1 EXCEPT !.req[r].addr_index = Inc(@),
                           !.req[r].addr_concurrency = Inc(@),
                           !.req[r].faults =
                               @ \/ (missed /\ outcome \in {"nomem", "failed"})])
    /\ UNCHANGED <<cfg, script, threads, history>>

\* loop_checks that does not look at the deadline timer
loop_checks_notimeout(q) ==
    IF q.node_list = <<>>
    THEN [q EXCEPT !.pc = "out"]
    ELSE [q EXCEPT !.pc = "loop", !.stepped = FALSE]

\* the checks that follow the while loop, up to blocking in event_base_loop
loop_checks(q) ==
    IF ~ q.timeout_pending
    THEN [q EXCEPT !.err = ETIMEDOUT, !.pc = "out"]
    ELSE IF q.node_list = <<>>
    THEN [q EXCEPT !.pc = "out"]
    ELSE [q EXCEPT !.pc = "loop", !.stepped = FALSE]

Check(r) ==
    /\ req[r].pc = "top"
    /\ \/ req[r].addr_index = Len(req[r].addr_list)
       \/ req[r].addr_concurrency >= cfg.max_concurrency
    /\ req' = [req EXCEPT ![r] = loop_checks(@)]
    /\ UNCHANGED <<node_cache, dead_nodes, cache_count, nodes, now, cfg, script, threads, history, fds, cache_mutex, unguarded>>

\* event_base_loop delivers readable input of a live node: readcb
ReadCb(r, n, k) ==
    /\ req[r].pc = "loop"
    /\ req[r].draining = NULL
    /\ Has(req[r].node_list, n)
    /\ nodes[n].enabled
    /\ nodes[n].pos + k <= Len(script[nodes[n].addr])
    /\ LET frames == SubSeq(script[nodes[n].addr], nodes[n].pos + 1, nodes[n].pos + k)
           s1 == [St EXCEPT !.nodes[n].pos = @ + k, !.req[r].stepped = TRUE,
                            !.req[r].nframes = @ + k]
       IN Apply(readcb(s1, n, frames, 0))
    /\ UNCHANGED <<cfg, script, threads, history>>

\* event_base_loop delivers writability of a connecting socket: try_connect
TryConnectCb(r, n, outcome) ==
    /\ req[r].pc = "loop"
    /\ req[r].draining = NULL
    /\ Has(req[r].node_list, n)
    /\ nodes[n].connect_pending
    /\ outcome # "nomem"
    /\ LET s1 == [St EXCEPT !.nodes[n].connect_pending = FALSE,
                            !.req[r].stepped = TRUE,
                            !.req[r].faults = @ \/ outcome = "failed"]
       IN Apply(try_connect(s1, n, outcome))
    /\ UNCHANGED <<cfg, script, threads, history>>

\* event_base_loop delivers an error or EOF of a live node: errorcb
ErrorCb(r, n) ==
    /\ req[r].pc = "loop"
    /\ req[r].draining = NULL
    /\ Has(req[r].node_list, n)
    /\ nodes[n].enabled
    /\ Apply(free_node([St EXCEPT !.req[r].stepped = TRUE,
                                  !.req[r].faults = TRUE], n))
    /\ UNCHANGED <<cfg, script, threads, history>>

\* the rest of a readcb call that has released its node: it drains the
\* node's input and returns.  The node is no longer the thread's: if another
\* request has acquired it meanwhile, up to MaxBatch frames of the answer to
\* that request are drained unprocessed (lost); if it was destroyed the
\* accesses read freed memory, which the model takes to pass unnoticed.
DrainRest(r, lost) ==
    /\ req[r].pc = "loop"
    /\ req[r].draining # NULL
    /\ LET n == req[r].draining
           s1 == [St EXCEPT !.req[r].draining = NULL]
       IN IF n \in DOMAIN nodes /\ nodes[n].request # NULL /\ nodes[n].enabled
          THEN /\ nodes[n].pos + lost <= Len(script[nodes[n].addr])
               /\ Apply([s1 EXCEPT !.nodes[n].pos = @ + lost])
          ELSE /\ lost = 0
               /\ Apply(s1)
    /\ UNCHANGED <<cfg, script, threads, history>>

\* the deadline fires: timeout_cb, after which to_event is no longer pending
TimeoutCb(r) ==
    /\ req[r].pc = "loop"
    /\ req[r].draining = NULL
    /\ req[r].timeout_pending
    /\ req' = [req EXCEPT ![r].timeout_pending = FALSE, ![r].stepped = TRUE]
    /\ UNCHANGED <<node_cache, dead_nodes, cache_count, nodes, now, cfg, script, threads, history, fds, cache_mutex, unguarded>>

\* post_step that takes a captured body for the chunk without verifying it
post_step_noverify(q) ==
    IF q.done = 0 THEN [q EXCEPT !.pc = "top"]
    ELSE IF ~ q.isread THEN [q EXCEPT !.err = CHUNK_SIZE, !.pc = "top"]
    ELSE IF ~ q.chunk
    THEN [q EXCEPT !.err = CHUNK_SIZE, !.pc = "out"]
    ELSE [q EXCEPT !.chunk = TRUE, !.done = Dec(@), !.pc = "top"]

\* post_step that gives up when a request_done came without a verifying body
post_step_doneends(q) ==
    IF q.done = 0 THEN [q EXCEPT !.pc = "top"]
    ELSE IF ~ q.isread THEN [q EXCEPT !.err = CHUNK_SIZE, !.pc = "top"]
    ELSE IF ~ q.chunk /\ verify_chunk(q.buf, q.digest)
    THEN [q EXCEPT !.err = CHUNK_SIZE, !.pc = "out"]
    ELSE [q EXCEPT !.chunk = TRUE, !.done = Dec(@), !.pc = "out"]

\* what follows event_base_loop's return in the for (;;) body
post_step(q) ==
    IF q.done = 0 THEN [q EXCEPT !.pc = "top"]
    ELSE IF ~ q.isread THEN [q EXCEPT !.err = CHUNK_SIZE, !.pc = "top"]
    ELSE IF ~ q.chunk /\ verify_chunk(q.buf, q.digest)
    THEN [q EXCEPT !.err = CHUNK_SIZE, !.pc = "out"]
    ELSE [q EXCEPT !.chunk = TRUE, !.done = Dec(@), !.pc = "top"]

PostStep(r) ==
    /\ req[r].pc = "loop"
    /\ req[r].draining = NULL
    /\ req[r].stepped
    /\ req' = [req EXCEPT ![r] = post_step(@)]
    /\ UNCHANGED <<node_cache, dead_nodes, cache_count, nodes, now, cfg, script, threads, history, fds, cache_mutex, unguarded>>

\* an if in place of the while: only the first attached node is handed over
release_all_first(st, r) ==
    With(st, LAMBDA s :
    IF s.req[r].node_list = <<>> THEN s
    ELSE __cache_node(s, Head(s.req[r].node_list)))

\* the loop under cache_mutex that hands every attached node to the cache
RECURSIVE release_all(_, _)
release_all(st, r) ==
    With(st, LAMBDA s :
    IF s.req[r].node_list = <<>> THEN s
    ELSE release_all(__cache_node(s, Head(s.req[r].node_list)), r))

\* the end of send_request: the nodes released, the timer deleted, the
\* address list freed; of the request there remain the status returned and
\* the caller's buffer
Release(r) ==
    /\ req[r].pc = "out"
    /\ Apply([unlock(release_all(lock(St), r)) EXCEPT
                 !.req[r] = [IdleRequest EXCEPT !.pc = "done",
                                                !.isread = req[r].isread,
                                                !.buf = req[r].buf,
                                                !.err = req[r].err,
                                                !.faults = req[r].faults]])
    /\ UNCHANGED <<cfg, script, threads, history>>

\* time passes; the clock is read only against the stamps of dead nodes
Tick(d) ==
    /\ dead_nodes # <<>>
    /\ now + d <= MaxNow
    /\ now' = now + d
    /\ UNCHANGED <<node_cache, dead_nodes, cache_count, nodes, req, cfg, script, threads, history, fds, cache_mutex, unguarded>>

Next ==
    \/ \E r \in Requests, isread \in BOOLEAN : Start(r, isread)
    \/ \E r \in Requests, o \in ConnectOutcomes : Dispatch(r, o)
    \/ \E r \in Requests : Check(r)
    \/ \E r \in Requests, n \in DOMAIN nodes, k \in 1..MaxBatch : ReadCb(r, n, k)
    \/ \E r \in Requests, lost \in 0..MaxBatch : DrainRest(r, lost)
    \/ \E r \in Requests, n \in DOMAIN nodes, o \in ConnectOutcomes : TryConnectCb(r, n, o)
    \/ \E r \in Requests, n \in DOMAIN nodes : ErrorCb(r, n)
    \/ \E r \in Requests : TimeoutCb(r)
    \/ \E r \in Requests : PostStep(r)
    \/ \E r \in Requests : Release(r)
    \/ \E d \in {DEAD_SECS, DEAD_SECS + 1} : Tick(d)

Spec == Init /\ [][Next]_vars

\* two threads call the back-end at the same time
InitMT ==
    InitWith({NoHistory, [idle |-> FullCache, dead |-> <<>>],
              [idle |-> <<AddrA>>, dead |-> <<>>]},
             {2}, {SingleHop}, 2)

SpecMT == InitMT /\ [][Next]_vars

\* one thread, with the scheduling the event loop and the timer give: the
\* thread keeps running, and the deadline timer fires once it has been armed
Fairness ==
    \A r \in Requests :
        /\ WF_vars(\E o \in ConnectOutcomes : Dispatch(r, o))
        /\ WF_vars(Check(r))
        /\ WF_vars(\E lost \in 0..MaxBatch : DrainRest(r, lost))
        /\ WF_vars(PostStep(r))
        /\ WF_vars(Release(r))
        /\ SF_vars(TimeoutCb(r))

InitLive ==
    InitWith(Histories \ {[idle |-> FullCache, dead |-> <<>>]},
             {1, 2, UINT_MAX}, {Silent, Referral, BadThenGood, Fanout}, 1)

LiveSpec == InitLive /\ [][Next]_vars /\ Fairness

-----------------------------------------------------------------------------
(* Properties *)

Blocked(r) == req[r].pc = "loop" /\ ~ req[r].stepped
AddrOf(list) == {nodes[list[i]].addr : i \in 1..Len(list)}

\* C1: a read that returns CHUNK_SIZE leaves in the caller's buffer bytes
\* that verify against the digest asked for.
C1_ReadVerified ==
    \A r \in Requests :
        (req[r].isread /\ req[r].pc \in {"out", "done"} /\ req[r].err = CHUNK_SIZE)
            => verify_chunk(req[r].buf, req[r].digest)

C1_Witness ==
    \E r \in Requests :
        /\ req[r].isread /\ req[r].pc = "done" /\ req[r].err = CHUNK_SIZE
        /\ script = BadThenGood

\* C2: a write returns CHUNK_SIZE as soon as a matching request_done has been
\* processed: it does not block again on the peers still attached, and it
\* does not leave the loop with another status.
C2_WriteEndsOnFirstDone ==
    \A r \in Requests :
        (~ req[r].isread /\ req[r].done > 0)
            => /\ ~ Blocked(r)
               /\ req[r].pc = "out" => req[r].err = CHUNK_SIZE

\* C3: the idle list holds at most CACHE_MAX nodes and cache_count is its
\* length, whatever the threads' acquires, releases and evictions.
C3_CacheBounded ==
    /\ Len(node_cache) <= CACHE_MAX
    /\ cache_count = Len(node_cache)

C3_Witness ==
    /\ history.idle = FullCache
    /\ Len(node_cache) = CACHE_MAX
    /\ nodes[node_cache[1]].addr = AddrA
    /\ \E r \in Requests : req[r].pc = "loop" /\ req[r].node_list # <<>>

\* C4: every node is at exactly one place: the node_list of exactly one live
\* request, which node.request names, or node_cache, or dead_nodes.
Range(list) == {list[i] : i \in 1..Len(list)}
NoRepeat(list) == Cardinality(Range(list)) = Len(list)

C4_OnePlace ==
    /\ NoRepeat(node_cache) /\ NoRepeat(dead_nodes)
    /\ \A r \in Requests : NoRepeat(req[r].node_list)
    /\ Range(node_cache) \cap Range(dead_nodes) = {}
    /\ \A r \in Requests :
          /\ Range(req[r].node_list) \cap (Range(node_cache) \cup Range(dead_nodes)) = {}
          /\ \A q \in Requests \ {r} :
                Range(req[r].node_list) \cap Range(req[q].node_list) = {}
    /\ DOMAIN nodes = Range(node_cache) \cup Range(dead_nodes)
                         \cup UNION {Range(req[r].node_list) : r \in Requests}
    /\ \A n \in DOMAIN nodes :
          /\ \A r \in Requests : Has(req[r].node_list, n) <=> nodes[n].request = r
          /\ nodes[n].request # NULL
                => req[nodes[n].request].pc \in {"top", "loop", "out"}

C4_Witness ==
    \E n, m \in DOMAIN nodes :
        /\ nodes[n].request = 1 /\ nodes[m].request = 2
        /\ same_addr(nodes[n].addr, nodes[m].addr)
        /\ node_cache # <<>>

\* C5: between event-loop steps addr_concurrency is the number of nodes on
\* the request's node_list.
C5_CounterIsSetSize ==
    \A r \in Requests :
        (Blocked(r) \/ req[r].pc = "out")
            => req[r].addr_concurrency = Len(req[r].node_list)

\* C6: when a request is about to block in the event loop, its attached
\* nodes are at most addr_concurrency, which is at most max_concurrency, and
\* at most addr_index; the counter never goes below zero (an unsigned counter
\* that did would hold UINT_MAX, above every addr_index).
C6_CounterBounds ==
    \A r \in Requests :
        /\ req[r].addr_concurrency <= req[r].addr_index
        /\ Blocked(r) =>
              /\ Len(req[r].node_list) <= req[r].addr_concurrency
              /\ req[r].addr_concurrency <= cfg.max_concurrency
              /\ Len(req[r].node_list) <= req[r].addr_index

C6_Witness ==
    \E r \in Requests :
        /\ Blocked(r)
        /\ req[r].node_list # <<>>
        /\ Len(req[r].node_list) < req[r].addr_concurrency
        /\ req[r].addr_concurrency = cfg.max_concurrency

C8_EIOOnlyWhenExhausted ==
    \A r \in Requests :
        (req[r].pc = "out" /\ req[r].err = EIO)
            => /\ req[r].node_list = <<>>
               /\ req[r].addr_index = Len(req[r].addr_list)

\* C9: the status does not depend on how the frames of different nodes
\* interleave.  With the peers of BadThenGood a read succeeds when A's frames
\* all come before B's, so it succeeds whenever every frame of A and B was
\* read before the deadline and nothing failed.
C9_OrderInsensitive ==
    \A r \in Requests :
        (/\ script = BadThenGood /\ history = NoHistory
         /\ req[r].isread /\ req[r].pc = "out"
         /\ ~ req[r].faults /\ req[r].timeout_pending
         /\ req[r].nframes = Len(script[AddrA]) + Len(script[AddrB]))
            => req[r].err = CHUNK_SIZE

\* the interleaving of C9 that succeeds
C9_SomeOrderSucceeds ==
    \E r \in Requests :
        /\ script = BadThenGood /\ history = NoHistory
        /\ req[r].isread /\ req[r].pc = "out"
        /\ ~ req[r].faults /\ req[r].timeout_pending
        /\ req[r].nframes = Len(script[AddrA]) + Len(script[AddrB])
        /\ req[r].err = CHUNK_SIZE

\* C10: referral then read, from an empty cache and dead list, with every
\* connect succeeding and the deadline not reached: the read returns
\* CHUNK_SIZE with the referred peer's body in the buffer (the start peer's
\* bodiless request_done did not end it), and both nodes are on node_cache.
C10_ReferralThenRead ==
    \A r \in Requests :
        (/\ script = Referral /\ history = NoHistory
         /\ req[r].isread /\ req[r].pc = "done"
         /\ ~ req[r].faults /\ req[r].err # ETIMEDOUT)
            => /\ req[r].err = CHUNK_SIZE
               /\ req[r].buf = GoodChunk
               /\ AddrOf(node_cache) = {AddrA, AddrB}
               /\ dead_nodes = <<>>

C10_Witness ==
    \E r \in Requests :
        /\ script = Referral /\ history = NoHistory
        /\ req[r].isread /\ req[r].pc = "done"
        /\ ~ req[r].faults /\ req[r].err = CHUNK_SIZE
        /\ AddrOf(node_cache) = {AddrA, AddrB}

\* C11: on a read whose captured body does not verify, a store_chunk body
\* that another peer delivers next is written into the caller's buffer, over
\* the earlier one.  With the peers of BadThenGood: the buffer holds A's bad
\* body and B's node delivers its store_chunk frame.
C11_LaterBodyOverwrites ==
    [][\A r \in Requests, n \in DOMAIN nodes :
          (/\ script = BadThenGood
           /\ req[r].isread /\ ~ req[r].chunk /\ req[r].buf = BadChunk
           /\ ~ verify_chunk(req[r].buf, req[r].digest)
           /\ nodes[n].addr = AddrB
           /\ ReadCb(r, n, 1)
           /\ script[nodes[n].addr][nodes[n].pos + 1].verb = "store_chunk")
             => req'[r].buf =
                   base64_decode(script[nodes[n].addr][nodes[n].pos + 1].arg)]_vars

\* C12: a dead_nodes entry is stamped insertion + 60 s and find_node destroys
\* it only when the clock is past the stamp; until then a dispatch to its
\* address, no idle node matching, finds it: no node is created, no socket
\* opened, the entry stays.  A request whose one candidate is such an address
\* leaves the loop with -EIO.
C12_DeadForSixtySeconds ==
    /\ [][/\ \A n \in Range(dead_nodes') \ Range(dead_nodes) :
                nodes'[n].stamp = now + DEAD_SECS
          /\ \A n \in Range(dead_nodes) \ Range(dead_nodes') :
                now > nodes[n].stamp
          /\ \A r \in Requests :
                (/\ req[r].pc = "top"
                 /\ req'[r].addr_index = req[r].addr_index + 1
                 /\ LET a == req[r].addr_list[req[r].addr_index + 1]
                    IN /\ a \notin AddrOf(node_cache)
                       /\ \E n \in Range(dead_nodes) :
                             nodes[n].addr = a /\ now <= nodes[n].stamp)
                   => /\ fds' \subseteq fds
                      /\ DOMAIN nodes' \subseteq DOMAIN nodes
                      /\ req'[r].node_list = req[r].node_list
                      /\ \E n \in Range(dead_nodes') :
                            nodes'[n].addr = req[r].addr_list[req[r].addr_index + 1]]_vars
    /\ [](\A r \in Requests :
            (/\ req[r].pc = "out" /\ Len(req[r].addr_list) = 1
             /\ req[r].node_list = <<>> /\ req[r].nframes = 0 /\ ~ req[r].faults
             /\ req[r].addr_list[1] \in AddrOf(dead_nodes))
               => req[r].err = EIO)

\* the start peer was dead-listed at time 0 and the clock reads exactly 60:
\* the request found the entry and left the loop with -EIO, no socket open
C12_Witness ==
    \E r \in Requests :
        /\ history = [idle |-> <<>>, dead |-> <<AddrA>>]
        /\ now = DEAD_SECS
        /\ req[r].pc = "out" /\ req[r].err = EIO /\ ~ req[r].faults
        /\ req[r].addr_index = 1
        /\ AddrOf(dead_nodes) = {AddrA} /\ fds = {}

\* C13: a request's addr_list never holds two entries equal in ip and port,
\* whatever referrals arrive (repeats of the start node and of earlier
\* referrals included); while the request runs the list only grows at its
\* end; addr_index never passes the length of the list.
IsPrefix(a, b) == Len(a) <= Len(b) /\ a = SubSeq(b, 1, Len(a))

C13_AddrList ==
    /\ [](\A r \in Requests :
            /\ \A i, j \in 1..Len(req[r].addr_list) :
                  same_addr(req[r].addr_list[i], req[r].addr_list[j]) => i = j
            /\ req[r].addr_index <= Len(req[r].addr_list))
    /\ [][\A r \in Requests :
            req'[r].pc # "done" => IsPrefix(req[r].addr_list, req'[r].addr_list)]_vars

\* A's three referrals (itself, B, B again) have been read; B is still to
\* be dispatched
C13_Witness ==
    \E r \in Requests :
        /\ script = Repeats
        /\ req[r].pc = "loop" /\ req[r].nframes = 3 /\ req[r].addr_index = 1
        /\ req[r].addr_list = <<AddrA, AddrB>>

C15_GarbledBodyIgnored ==
    \A r \in Requests :
        (script = Garbled /\ req[r].isread /\ req[r].pc \in {"top", "loop", "out"})
            => /\ req[r].nframes = 1 => req[r].chunk
               /\ req[r].nframes >= 2 => req[r].buf = GoodChunk

\* C16: a readcb call whose frames hold a request_done with the hex of the
\* request's digest adds one to done, takes one from addr_concurrency and
\* moves the node from the request's node_list to the head of node_cache; the
\* frames that follow it in the call change nothing of the request (no body
\* captured, no address appended).  A call without such a frame leaves the
\* node attached and the two counters as they were, and when all its frames
\* are request_done for other digests it changes nothing of the request.
C16_RequestDone ==
    [][\A r \in Requests, n \in DOMAIN nodes, k \in 1..MaxBatch :
          ReadCb(r, n, k) =>
            LET fr == SubSeq(script[nodes[n].addr], nodes[n].pos + 1, nodes[n].pos + k)
                dn == {i \in 1..k : /\ fr[i].verb = "request_done"
                                    /\ fr[i].arg = digest_string(req[r].digest)}
            IN IF dn # {}
               THEN LET i0 == CHOOSE i \in dn : \A j \in dn : i <= j
                    IN /\ req'[r].done = req[r].done + 1
                       /\ req'[r].addr_concurrency = req[r].addr_concurrency - 1
                       /\ ~ Has(req'[r].node_list, n)
                       /\ node_cache' # <<>> /\ Head(node_cache') = n
                       /\ nodes'[n].request = NULL
                       /\ (\A i \in 1..(i0 - 1) : fr[i].verb # "store_chunk")
                             => /\ req'[r].buf = req[r].buf
                                /\ req'[r].chunk = req[r].chunk
                       /\ (\A i \in 1..(i0 - 1) : fr[i].verb # "store_node")
                             => req'[r].addr_list = req[r].addr_list
               ELSE /\ Has(req'[r].node_list, n) /\ nodes'[n].request = r
                    /\ req'[r].done = req[r].done
                    /\ req'[r].addr_concurrency = req[r].addr_concurrency
                    /\ (\A i \in 1..k : fr[i].verb = "request_done")
                          => /\ req'[r].buf = req[r].buf
                             /\ req'[r].chunk = req[r].chunk
                             /\ req'[r].addr_list = req[r].addr_list
                             /\ req'[r].node_list = req[r].node_list
                             /\ node_cache' = node_cache]_vars

\* A's five frames have been read, the last two (its request_done and the
\* referral to C behind it) in one call: A's node heads node_cache, done is 1
\* and C is not a candidate
C16_Witness ==
    \E r \in Requests :
        /\ script = Repeats
        /\ req[r].pc = "loop" /\ req[r].nframes = 5 /\ req[r].addr_index = 1
        /\ req[r].done = 1 /\ req[r].addr_list = <<AddrA, AddrB>>
        /\ node_cache # <<>> /\ nodes[Head(node_cache)].addr = AddrA

\* C17: node_cache is in order of release, the latest at the head.  A step
\* either takes one node out (acquire: the first node of the address, which
\* becomes attached; the others keep their order) or puts the nodes it
\* releases at the head, the later released the nearer the head, and then
\* destroys as many nodes as the list exceeds CACHE_MAX by, taken from the
\* tail (the least recently released), never a node just released.
Reverse(list) == [i \in 1..Len(list) |-> list[Len(list) + 1 - i]]

C17_LRU ==
    [][/\ \A r \in Requests :
            /\ req'[r].done = req[r].done + 1
                  => /\ node_cache' # <<>>
                     /\ Head(node_cache') \notin Range(node_cache)
                     /\ nodes[Head(node_cache')].request = r
            /\ (req[r].pc = "out" /\ req'[r].pc = "done")
                  => LET rel == Reverse(SelectSeq(req[r].node_list,
                                           LAMBDA n : ~ nodes[n].connect_pending))
                     IN /\ Len(rel) <= Len(node_cache')
                        /\ SubSeq(node_cache', 1, Len(rel)) = rel
       /\ \/ node_cache' = node_cache
          \/ LET fresh == Range(node_cache') \ Range(node_cache)
                 gone == Range(node_cache) \ Range(node_cache')
                 j == Cardinality(fresh)
                 kept == SubSeq(node_cache', j + 1, Len(node_cache'))
                 over == IF Len(node_cache) + j > CACHE_MAX
                         THEN Len(node_cache) + j - CACHE_MAX ELSE 0
             IN /\ \A i \in 1..j : node_cache'[i] \in fresh
                /\ j = 0 =>
                      /\ Cardinality(gone) = 1
                      /\ kept = SelectSeq(node_cache, LAMBDA x : x \notin gone)
                      /\ \A n \in gone :
                            /\ n \in DOMAIN nodes' /\ nodes'[n].request # NULL
                            /\ \A i \in 1..Len(node_cache) :
                                  same_addr(nodes[node_cache[i]].addr, nodes[n].addr)
                                     => \E i2 \in 1..i : node_cache[i2] = n
                /\ j > 0 =>
                      /\ Cardinality(gone) = over
                      /\ kept = SubSeq(node_cache, 1, Len(node_cache) - over)
                      /\ \A n \in gone : n \notin DOMAIN nodes']_vars

\* a request released its start peer's node to a full cache: the node heads
\* the list and the tail is the node that was last but one
C17_Witness ==
    /\ history.idle = FullCache
    /\ Len(node_cache) = CACHE_MAX
    /\ nodes[node_cache[1]].addr = AddrA
    /\ nodes[node_cache[CACHE_MAX]].addr = BgAddr(CACHE_MAX - 1)
    /\ \E r \in Requests : req[r].pc = "done"

\* C18: node_cache, dead_nodes and cache_count are changed only by a thread
\* that holds cache_mutex (acquire, release, eviction, the sweep of the dead
\* list, the release at the end of a request); errorcb's free_node, which
\* runs without the mutex, unlinks its node from the node_list of the acting
\* request only.  The mutex is free between steps.
C18_SharedUnderMutex == ~ unguarded /\ ~ cache_mutex

\* errorcb has destroyed the one node of a request (its slot was given
\* back, no frame was read) while a node released by another request is idle
C18_Witness ==
    \E r \in Requests :
        /\ req[r].pc = "loop" /\ req[r].stepped
        /\ req[r].addr_index = 1 /\ req[r].addr_concurrency = 0
        /\ req[r].node_list = <<>> /\ req[r].nframes = 0
        /\ history = NoHistory
        /\ node_cache # <<>> /\ dead_nodes = <<>>

\* C19: a node's descriptor is closed once, when the node is dead-listed or
\* else when it is destroyed, so a destruction never closes a descriptor that
\* now belongs to another node: every node that is attached or idle holds an
\* open descriptor, and no two of them hold the same one.
C19_ClosedOnce ==
    \A n \in DOMAIN nodes \ Range(dead_nodes) :
        /\ nodes[n].sk \in fds
        /\ \A m \in DOMAIN nodes \ (Range(dead_nodes) \cup {n}) :
              nodes[m].sk # nodes[n].sk

\* C20: after readcb has released a node to node_cache the thread does not
\* touch the node again, so while a thread is still inside that readcb call
\* the node is where it was put: no other thread has acquired it or
\* destroyed it.
C20_NoAccessAfterRelease ==
    \A r \in Requests :
        req[r].draining # NULL => Has(node_cache, req[r].draining)

====
